---- MODULE Spec2Model ----
(***************************************************************************)
(* State-machine model of the Polar H10 client (polar_h10/core):           *)
(*   - the PMD control-point transaction (_pmd_control_point_request),     *)
(*   - the notification lifecycle (register_notification,                  *)
(*     remove_notification, connect),                                      *)
(*   - the parameter codec and the capability validation they use.         *)
(* Coroutines are split at their await points: one action per stretch of   *)
(* code that runs without suspension.                                      *)
(***************************************************************************)
EXTENDS Integers, Sequences, FiniteSets, TLC

(***************************************************************************)
(* Python dicts are insertion ordered: a dict is a sequence of entries     *)
(* [k |-> key, v |-> value] with distinct keys.                            *)
(***************************************************************************)
DictHas(d, key) ==
    \E i \in 1..Len(d) : d[i].k = key

DictGet(d, key) ==
    d[CHOOSE i \in 1..Len(d) : d[i].k = key].v

\* d[key] = val : an existing key keeps its position, a new key is appended.
DictSet(d, key, val) ==
    IF DictHas(d, key)
    THEN [i \in 1..Len(d) |-> IF d[i].k = key THEN [k |-> key, v |-> val] ELSE d[i]]
    ELSE Append(d, [k |-> key, v |-> val])

RECURSIVE DictUpdate(_, _)
\* d.update(other)
DictUpdate(d, other) ==
    IF other = <<>> THEN d
    ELSE DictUpdate(DictSet(d, other[1].k, other[1].v), Tail(other))

(***************************************************************************)
(* Enumerations.  NotificationType is in polar_h10.py; PMDSetting lives in *)
(* core/enums.py; the ids 0, 1, 2 are the ones the unit tests pin down.    *)
(***************************************************************************)
NotificationTypes ==
    {"ECG", "ACC", "BATTERY_LVL", "DISCONNECT", "HEAR_RATE"}

NotificationValue(nt) ==
    CASE nt = "ECG" -> 0
      [] nt = "ACC" -> 2
      [] nt = "BATTERY_LVL" -> 101
      [] nt = "DISCONNECT" -> 102
      [] nt = "HEAR_RATE" -> 201

\* The members of PMDMeasurement that have a NotificationType of the same value.
PMDMeasurements ==
    <<"ECG", "ACC">>

PMDSettingIds ==
    {0, 1, 2, 3, 4, 5}

PMDSettingName(id) ==
    CASE id = 0 -> "SAMPLE_RATE"
      [] id = 1 -> "RESOLUTION"
      [] id = 2 -> "RANGE"
      [] id = 3 -> "RANGE_MILLIUNIT"
      [] id = 4 -> "CHANNELS"
      [] id = 5 -> "FACTOR"

PMDSettingId(name) ==
    CHOOSE id \in PMDSettingIds : PMDSettingName(id) = name

\* the member PMDSetting(id), told apart from its name (a str)
PMDSettingMember(id) ==
    CASE id = 0 -> "PMDSetting.SAMPLE_RATE"
      [] id = 1 -> "PMDSetting.RESOLUTION"
      [] id = 2 -> "PMDSetting.RANGE"
      [] id = 3 -> "PMDSetting.RANGE_MILLIUNIT"
      [] id = 4 -> "PMDSetting.CHANNELS"
      [] id = 5 -> "PMDSetting.FACTOR"

\* the dict of lines 207-211 is keyed by the members of PMDSetting: any other
\* key, the name of a setting among them, gets the default
get_setting_size(setting) ==
    CASE setting = "PMDSetting.CHANNELS" -> 1
      [] setting = "PMDSetting.FACTOR" -> 4
      [] setting = "PMDSetting.RANGE_MILLIUNIT" -> 8
      [] OTHER -> 2

(***************************************************************************)
(* Parameter codec (utils.py).  Bytes are 0..255; a setting value is       *)
(* [list |-> BOOLEAN, v |-> sequence of integers]: a Python int is         *)
(* list = FALSE with one element, a Python list is list = TRUE.            *)
(***************************************************************************)
Scalar(n) ==
    [list |-> FALSE, v |-> <<n>>]

List(s) ==
    [list |-> TRUE, v |-> s]

RECURSIVE from_bytes(_)
\* int.from_bytes(b, "little")
from_bytes(b) ==
    IF b = <<>> THEN 0 ELSE b[1] + 256 * from_bytes(Tail(b))

RECURSIVE to_bytes(_, _)
\* n.to_bytes(size, "little"), for 0 <= n < 256^size
to_bytes(n, size) ==
    IF size = 0 THEN <<>> ELSE <<n % 256>> \o to_bytes(n \div 256, size - 1)

\* data[lo:hi] of Python, 0-based and clipped to the length of data
Slice(data, lo, hi) ==
    SubSeq(data, lo + 1, IF hi < Len(data) THEN hi ELSE Len(data))

RECURSIVE ReadList(_, _, _, _, _)
\* the for-loop of deserialize_pmd_parameters (count != 1): [value, offset]
ReadList(data, offset, value_size, count, value) ==
    IF count = 0 \/ offset + value_size > Len(data)
    THEN [value |-> value, offset |-> offset]
    ELSE ReadList(data, offset + value_size, value_size, count - 1,
                  Append(value, from_bytes(Slice(data, offset, offset + value_size))))

RECURSIVE DeserializeFrom(_, _, _)
\* the while-loop of deserialize_pmd_parameters; err: PMDSetting(byte) raised
DeserializeFrom(data, offset, params) ==
    IF ~(offset + 2 < Len(data)) THEN [err |-> FALSE, d |-> params]
    ELSE IF data[offset + 1] \notin PMDSettingIds THEN [err |-> TRUE, d |-> <<>>]
    ELSE
      LET setting_type == PMDSettingName(data[offset + 1])
          count == data[offset + 2]
          value_size == get_setting_size(PMDSettingMember(data[offset + 1]))
          off2 == offset + 2
      IN  IF count = 1
          THEN DeserializeFrom(data, off2 + value_size,
                   DictSet(params, setting_type,
                           Scalar(from_bytes(Slice(data, off2, off2 + value_size)))))
          ELSE LET r == ReadList(data, off2, value_size, count, <<>>)
               IN  DeserializeFrom(data, r.offset,
                       DictSet(params, setting_type, List(r.value)))

deserialize_pmd_parameters(data) ==
    DeserializeFrom(data, 0, <<>>)

RECURSIVE SerializeValues(_, _)
SerializeValues(vals, size) ==
    IF vals = <<>> THEN <<>>
    ELSE to_bytes(vals[1], size) \o SerializeValues(Tail(vals), size)

\* lines 35 and 38: to_bytes raises OverflowError for a value that does not
\* fit the size, get_setting_size being asked with the key of the dict (a str)
SerializeRaises(parameters) ==
    \E i \in 1..Len(parameters) :
        \E j \in 1..Len(parameters[i].v.v) :
            parameters[i].v.v[j] >= 256 ^ get_setting_size(parameters[i].k)

RECURSIVE serialize_pmd_parameters(_)
\* parameters: dict of setting name -> setting value; line 35 and line 38 ask
\* get_setting_size with the key of the dict (a str)
serialize_pmd_parameters(parameters) ==
    IF parameters = <<>> THEN <<>>
    ELSE LET e == parameters[1]
             size == get_setting_size(e.k)
         IN  <<PMDSettingId(e.k)>>
             \o (IF e.v.list THEN <<Len(e.v.v)>> ELSE <<1>>)
             \o SerializeValues(e.v.v, size)
             \o serialize_pmd_parameters(Tail(parameters))

(***************************************************************************)
(* Frame decoders (utils.py).  A decoder result is [err, n_samples, ...]:   *)
(* err names the exception raised ("none" when it returns).                *)
(***************************************************************************)
RECURSIVE Batches(_, _)
\* iter_batched(iterable, n), lines 10-15: the batches, the last one maybe short
Batches(data, n) ==
    IF data = <<>> THEN <<>>
    ELSE <<Slice(data, 0, n)>> \o Batches(Slice(data, n, Len(data)), n)

\* iter_batched(iterable, n, True) raises ValueError at an incomplete batch
\* (lines 13-14)
BatchesRaise(data, n) ==
    Len(data) % n # 0

\* an interpretation of the bytes that ignores the sign
from_bytes_unsigned(b) ==
    from_bytes(b)

\* int.from_bytes(b, "little", signed=True)
from_bytes_signed(b) ==
    IF b # <<>> /\ b[Len(b)] >= 128
    THEN from_bytes(b) - 256 ^ Len(b)
    ELSE from_bytes(b)

\* process_ecg_samples, lines 127-138
process_ecg_samples(frame_type, data) ==
    IF frame_type # 0
    THEN [err |-> "ValueError", n_samples |-> 0, lead_1 |-> <<>>]
    ELSE IF BatchesRaise(data, 3)
    THEN [err |-> "ValueError", n_samples |-> 0, lead_1 |-> <<>>]
    ELSE LET samples == Batches(data, 3)
         IN  [err |-> "none", n_samples |-> Len(samples),
              lead_1 |-> [i \in 1..Len(samples) |-> from_bytes_signed(samples[i])]]

\* process_acc_samples, lines 154-166; every frame of a strict batching has
\* 3 * sample_size bytes, so the inner batching yields the three axes
process_acc_samples(frame_type, data) ==
    IF frame_type < 0 \/ frame_type > 2
    THEN [err |-> "ValueError", n_samples |-> 0, x |-> <<>>, y |-> <<>>, z |-> <<>>]
    ELSE IF BatchesRaise(data, (frame_type + 1) * 3)
    THEN [err |-> "ValueError", n_samples |-> 0, x |-> <<>>, y |-> <<>>, z |-> <<>>]
    ELSE LET sample_size == frame_type + 1
             frames == Batches(data, sample_size * 3)
             axis(i, a) == from_bytes_signed(Batches(frames[i], sample_size)[a])
         IN  [err |-> "none", n_samples |-> Len(frames),
              x |-> [i \in 1..Len(frames) |-> axis(i, 1)],
              y |-> [i \in 1..Len(frames) |-> axis(i, 2)],
              z |-> [i \in 1..Len(frames) |-> axis(i, 3)]]

\* flags & mask, for a mask of one bit
BitAnd(flags, mask) ==
    ((flags \div mask) % 2) * mask

\* an RR value taken as it is on the wire
rr_unscaled(val) ==
    from_bytes(val)

\* line 200: one RR interval, 1/1024 s converted to ms
rr_interval(val) ==
    (from_bytes(val) * 1000) \div 1024

\* process_hr_samples, lines 180-202.  The dict `sample` is a record; the
\* has_ fields tell which keys it holds.
process_hr_samples(data) ==
    IF Len(data) < 2
    THEN [err |-> "none", isNone |-> TRUE]
    ELSE
      LET flags == data[1]
          wide == BitAnd(flags, 1) # 0
          heart_rate == IF wide THEN from_bytes(Slice(data, 1, 3)) ELSE data[2]
          idx1 == IF wide THEN 3 ELSE 2
          has_energy == BitAnd(flags, 8) # 0
          energy == IF has_energy THEN from_bytes(Slice(data, idx1, idx1 + 2)) ELSE 0
          idx2 == IF has_energy THEN idx1 + 2 ELSE idx1
          has_rr == BitAnd(flags, 16) # 0
          rest == Slice(data, idx2, Len(data))
      IN  IF has_rr /\ BatchesRaise(rest, 2)
          THEN [err |-> "ValueError", isNone |-> FALSE]
          ELSE [err |-> "none", isNone |-> FALSE,
                heart_rate |-> heart_rate,
                has_sensor_contact |-> BitAnd(flags, 4) # 0,
                sensor_contact |-> BitAnd(flags, 4) # 0 /\ BitAnd(flags, 2) # 0,
                has_energy_expended |-> has_energy,
                energy_expended |-> energy,
                has_rr_interval |-> has_rr,
                rr_interval |-> IF has_rr
                                THEN [i \in 1..Len(Batches(rest, 2)) |->
                                        rr_interval(Batches(rest, 2)[i])]
                                ELSE <<>>]

(***************************************************************************)
(* _validate_pmd_parameters (polar_h10.py).  The chosen values are Python  *)
(* ints (Scalar).  The result is [err, isNone, d]: err names the exception *)
(* raised ("none" when it returns), isNone is the return value None.       *)
(***************************************************************************)
\* lines 243-248: a list capability defaults to v[-1], any other value to itself
DefaultOf(v) ==
    IF v.list THEN Scalar(v.v[Len(v.v)]) ELSE v

DefaultParams(cap) ==
    [i \in 1..Len(cap) |-> [k |-> cap[i].k, v |-> DefaultOf(cap[i].v)]]

\* line 244-246 raise IndexError on v[-1] of an empty list
DefaultsRaise(cap) ==
    \E i \in 1..Len(cap) : cap[i].v.list /\ cap[i].v.v = <<>>

\* lines 259-262 for one entry of the merged dict: the exception it raises
CheckSetting(cap, setting, value) ==
    IF ~DictHas(cap, setting) THEN "InvalidParameter"
    ELSE IF ~DictGet(cap, setting).list THEN "TypeError"
    ELSE IF \A j \in 1..Len(DictGet(cap, setting).v) :
                DictGet(cap, setting).v[j] # value.v[1]
         THEN "InvalidParameter"
    ELSE "none"

RECURSIVE CheckFrom(_, _, _)
\* the for-loop of lines 258-263: the first entry that raises decides
CheckFrom(cap, params, i) ==
    IF i > Len(params) THEN "none"
    ELSE IF CheckSetting(cap, params[i].k, params[i].v) # "none"
         THEN CheckSetting(cap, params[i].k, params[i].v)
    ELSE CheckFrom(cap, params, i + 1)

validate_pmd_parameters(notification_type, pmd_config, parameters) ==
    LET cap == pmd_config[notification_type]
        merged == DictUpdate(DefaultParams(cap), parameters)
    IN  IF DefaultsRaise(cap) THEN [err |-> "IndexError", isNone |-> TRUE, d |-> <<>>]
        ELSE IF cap = <<>> THEN [err |-> "none", isNone |-> TRUE, d |-> <<>>]
        ELSE IF parameters = <<>>
             THEN [err |-> "none", isNone |-> FALSE, d |-> DefaultParams(cap)]
        ELSE IF CheckFrom(cap, merged, 1) # "none"
             THEN [err |-> CheckFrom(cap, merged, 1), isNone |-> TRUE, d |-> <<>>]
        ELSE [err |-> "none", isNone |-> FALSE, d |-> merged]

(***************************************************************************)
(* Bounds and inputs of the model.                                         *)
(***************************************************************************)
\* concurrent callers (asyncio tasks) of the PolarH10 object
Procs ==
    {1, 2}

\* requests the device holds unanswered; a further write displaces the oldest
MaxPending ==
    2

PMDStatuses ==
    {"SUCCESS", "ERROR_INVALID_STATE", "ERROR_ALREADY_IN_STATE"}

\* the settings a device advertises, as the parameter bytes (data[5:]) of its
\* answer to GET_MEASUREMENT_SETTINGS: SAMPLE_RATE [25, 50]
DeviceCapabilities ==
    { <<0, 2, 25, 0, 50, 0>> }

\* the task that connects
ConnectingTasks ==
    {1}

\* the callbacks handed to register_notification
Callbacks ==
    {"cb"}

\* the notification types the callers register and remove: one PMD stream,
\* the heart rate and one of the two types above 100
CalledTypes ==
    {"ECG", "HEAR_RATE", "DISCONNECT"}

\* the `parameters` argument of register_notification: None (the empty dict),
\* or a sample rate the device does not list
Overrides ==
    { <<>>,
      <<[k |-> "SAMPLE_RATE", v |-> Scalar(130)]>> }

(***************************************************************************)
(* State.                                                                  *)
(***************************************************************************)
VARIABLES
    capabilities,    \* the settings of the device at hand (never changes)
    is_connected,    \* BleakClient.is_connected: the link is up
    config,          \* self._config: NotificationType -> capability dict
    callbacks,       \* self._callbacks: NotificationType -> callback
    current_config,  \* self._current_config: NotificationType -> ActiveConfig
    p_timestamp,     \* self._p_timestamp: NotificationType -> int
    lock,            \* self._lock: [locked, waiters]
    cp_handler,      \* the task whose handle_response is subscribed to
                     \* PMD_CONTROL_POINT, 0 when none is
    device,          \* requests written to the device and not yet answered
    pc,              \* where each task is suspended
    call,            \* the public call each task is in: [op, nt, idx]
    txn,             \* the locals of each task's _pmd_control_point_request,
                     \* with three history fields: accepted, the status bytes
                     \* of the notifications handle_response accepted, how the
                     \* wait ended ("response", "timeout", "raise"), and
                     \* dropped, whether the link was down when it timed out
    result,          \* how each task's last call ended: [op, nt, err]
    given,           \* the `parameters` of the register call under study
                     \* (SpecRegister); unused when the callers choose freely
    device_time_delta, \* self._device_time_delta
    input,           \* the argument of the utils function or of the data
                     \* handler that ran last (SpecUtils, SpecData)
    output           \* what it returned, raised or delivered

vars ==
    << capabilities, is_connected, config, callbacks, current_config, p_timestamp, lock,
       cp_handler, device, pc, call, txn, result, given, device_time_delta,
       input, output >>

NoCall ==
    [op |-> "none", nt |-> "none", idx |-> 0]

NoTxn ==
    [command |-> "none", measurement_type |-> "none", payload |-> <<>>,
     response_status |-> "ERROR_INVALID_STATE", response_params |-> <<>>,
     response_event |-> FALSE,
     exc |-> "none", ret_status |-> "none", ret_params |-> <<>>,
     accepted |-> <<>>, how |-> "none", dropped |-> FALSE]

NoResult ==
    [op |-> "none", nt |-> "none", err |-> "none"]

\* __init__, lines 42-56
Init ==
    /\ capabilities \in DeviceCapabilities
    /\ is_connected = FALSE
    /\ config = [nt \in {"HEAR_RATE", "DISCONNECT"} |-> <<>>]
    /\ callbacks = <<>>
    /\ current_config = <<>>
    /\ p_timestamp = <<>>
    /\ lock = [locked |-> FALSE, waiters |-> <<>>]
    /\ cp_handler = 0
    /\ device = <<>>
    /\ pc = [p \in Procs |-> "idle"]
    /\ call = [p \in Procs |-> NoCall]
    /\ txn = [p \in Procs |-> NoTxn]
    /\ result = [p \in Procs |-> NoResult]
    /\ given = <<>>
    /\ device_time_delta = 0
    /\ input = <<>>
    /\ output = <<>>

\* d[key] = val and del d[key] on the dicts keyed by NotificationType
Put(d, key, val) ==
    [x \in DOMAIN d \cup {key} |-> IF x = key THEN val ELSE d[x]]

Del(d, key) ==
    [x \in DOMAIN d \ {key} |-> d[x]]

(***************************************************************************)
(* asyncio.Lock, as `async with self._lock` of line 180 uses it.           *)
(***************************************************************************)
\* a lock that never makes a caller wait
AcquireUnguarded ==
    TRUE

\* Lock.acquire takes the lock without suspending when it is free and no
\* task is queued for it
CanAcquire ==
    ~lock.locked /\ lock.waiters = <<>>

\* Lock.release: the first queued task is woken; it takes the lock when it runs
Released ==
    [lock EXCEPT !.locked = FALSE]

\* the task p enters _pmd_control_point_request (lines 165-180): fresh locals,
\* then the lock is taken or queued for
Begin(p, command, measurement_type, payload) ==
    /\ txn' = [txn EXCEPT ![p] =
                 [NoTxn EXCEPT !.command = command,
                               !.measurement_type = measurement_type,
                               !.payload = payload]]
    /\ IF CanAcquire
       THEN /\ lock' = [lock EXCEPT !.locked = TRUE]
            /\ pc' = [pc EXCEPT ![p] = "start_notify"]
       ELSE /\ lock' = [lock EXCEPT !.waiters = Append(@, p)]
            /\ pc' = [pc EXCEPT ![p] = "acquire"]

\* the public call op(nt) of task p ends: it returns (err = "ok") or raises err;
\* the task holds the outcome until it goes on (call_returned)
Finish(p, op, nt, err) ==
    /\ pc' = [pc EXCEPT ![p] = "done"]
    /\ result' = [result EXCEPT ![p] = [op |-> op, nt |-> nt, err |-> err]]
    /\ call' = [call EXCEPT ![p] = NoCall]

\* the call ends without having touched anything
EndNoEffect(p, op, nt, err) ==
    /\ Finish(p, op, nt, err)
    /\ UNCHANGED << input, output, device_time_delta, given, capabilities, is_connected, config, callbacks, current_config, p_timestamp,
                    lock, cp_handler, device, txn >>

\* the task that made the call takes its outcome and is free to call again
call_returned(p) ==
    /\ pc[p] = "done"
    /\ pc' = [pc EXCEPT ![p] = "idle"]
    /\ result' = [result EXCEPT ![p] = NoResult]
    /\ UNCHANGED << input, output, device_time_delta, given, capabilities, is_connected, config, callbacks, current_config, p_timestamp,
                    lock, cp_handler, device, call, txn >>

(***************************************************************************)
(* register_notification, lines 339-362: up to its first await.            *)
(***************************************************************************)
\* a registration check that lets a second callback through
RegisteredUnchecked(nt) ==
    FALSE

\* line 341
AlreadyRegistered(nt) ==
    nt \in DOMAIN callbacks

register_notification(p, notification_type, callback, parameters) ==
    /\ pc[p] = "idle"
    /\ LET nt == notification_type
           v == validate_pmd_parameters(nt, config, parameters)
           entered == [call EXCEPT ![p] = [op |-> "register", nt |-> nt, idx |-> 0]]
       IN  IF nt \notin DOMAIN config
           THEN EndNoEffect(p, "register", nt, "UnsupportedMeasurement")
           ELSE IF AlreadyRegistered(nt)
           THEN EndNoEffect(p, "register", nt, "AlreadyRegistered")
           ELSE IF v.err # "none"
           THEN EndNoEffect(p, "register", nt, v.err)
           ELSE IF nt = "HEAR_RATE"
           THEN /\ callbacks' = Put(callbacks, nt, callback)
                /\ current_config' = Put(current_config, nt, [isNone |-> v.isNone, d |-> v.d])
                /\ pc' = [pc EXCEPT ![p] = "hr_enable"]
                /\ call' = entered
                /\ UNCHANGED << input, output, device_time_delta, given, capabilities, is_connected, config, p_timestamp, lock, cp_handler,
                                device, txn, result >>
           ELSE IF NotificationValue(nt) >= 100
           THEN /\ callbacks' = Put(callbacks, nt, callback)
                /\ current_config' = Put(current_config, nt, [isNone |-> v.isNone, d |-> v.d])
                /\ Finish(p, "register", nt, "ok")
                /\ UNCHANGED << input, output, device_time_delta, given, capabilities, is_connected, config, p_timestamp, lock, cp_handler,
                                device, txn >>
           ELSE IF v.isNone
           THEN \* serialize_pmd_parameters(None) raises AttributeError inside the
                \* try: lines 367-368 delete what lines 346-347 installed
                /\ p_timestamp' = Put(p_timestamp, nt, 0)
                /\ Finish(p, "register", nt, "AttributeError")
                /\ UNCHANGED << input, output, device_time_delta, given, capabilities, is_connected, config, callbacks, current_config, lock,
                                cp_handler, device, txn >>
           ELSE IF SerializeRaises(v.d)
           THEN \* to_bytes raises OverflowError inside the try, lines 367-368
                /\ p_timestamp' = Put(p_timestamp, nt, 0)
                /\ Finish(p, "register", nt, "OverflowError")
                /\ UNCHANGED << input, output, device_time_delta, given, capabilities, is_connected, config, callbacks, current_config, lock,
                                cp_handler, device, txn >>
           ELSE /\ callbacks' = Put(callbacks, nt, callback)
                /\ current_config' = Put(current_config, nt, [isNone |-> FALSE, d |-> v.d])
                /\ p_timestamp' = Put(p_timestamp, nt, 0)
                /\ Begin(p, "START_MEASUREMENT", nt, serialize_pmd_parameters(v.d))
                /\ call' = entered
                /\ UNCHANGED << input, output, device_time_delta, given, capabilities, is_connected, config, cp_handler, device,
                                result >>

(***************************************************************************)
(* remove_notification, lines 383-399: up to its first await.              *)
(***************************************************************************)
remove_notification(p, notification_type) ==
    /\ pc[p] = "idle"
    /\ LET nt == notification_type
           entered == [call EXCEPT ![p] = [op |-> "remove", nt |-> nt, idx |-> 0]]
       IN  IF nt \notin DOMAIN config
           THEN EndNoEffect(p, "remove", nt, "UnsupportedMeasurement")
           ELSE IF nt \notin DOMAIN callbacks
           THEN EndNoEffect(p, "remove", nt, "NotRegistered")
           ELSE IF nt = "HEAR_RATE"
           THEN /\ pc' = [pc EXCEPT ![p] = "hr_enable"]
                /\ call' = entered
                /\ UNCHANGED << input, output, device_time_delta, given, capabilities, is_connected, config, callbacks, current_config,
                                p_timestamp, lock, cp_handler, device, txn,
                                result >>
           ELSE IF NotificationValue(nt) >= 100
           THEN EndNoEffect(p, "remove", nt, "ok")
           ELSE /\ Begin(p, "STOP_MEASUREMENT", nt, <<>>)
                /\ call' = entered
                /\ UNCHANGED << input, output, device_time_delta, given, capabilities, is_connected, config, callbacks, current_config,
                                p_timestamp, cp_handler, device, result >>

\* _enable_hr_notification, lines 209-213, awaited by line 350 and by line 389:
\* start_notify raises BleakError when the link is down, and neither caller
\* catches it
enable_hr_notification(p) ==
    /\ pc[p] = "hr_enable"
    /\ Finish(p, call[p].op, call[p].nt, IF is_connected THEN "ok" ELSE "BleakError")
    /\ UNCHANGED << input, output, device_time_delta, given, capabilities, is_connected, config, callbacks, current_config, p_timestamp,
                    lock, cp_handler, device, txn >>

(***************************************************************************)
(* _pmd_control_point_request, lines 165-193.                              *)
(***************************************************************************)
\* `async with self._lock` resumes in a task that was queued (line 180)
lock_acquired(p) ==
    /\ pc[p] = "acquire"
    /\ ~lock.locked
    /\ lock.waiters # <<>>
    /\ Head(lock.waiters) = p
    /\ lock' = [locked |-> TRUE, waiters |-> Tail(lock.waiters)]
    /\ pc' = [pc EXCEPT ![p] = "start_notify"]
    /\ UNCHANGED << input, output, device_time_delta, given, capabilities, is_connected, config, callbacks, current_config, p_timestamp,
                    cp_handler, device, call, txn, result >>

\* the locals of a request whose return value (status, params) is built: the
\* closure variables are not read again
Returned(t, status, params) ==
    [t EXCEPT !.response_status = "ERROR_INVALID_STATE", !.response_params = <<>>,
              !.response_event = FALSE, !.ret_status = status, !.ret_params = params,
              !.accepted = <<>>]

\* an exception leaves the `async with` block: the lock is released and the
\* finally clause is entered with the exception pending
Raise(p, exc) ==
    /\ txn' = [txn EXCEPT ![p] =
                 [Returned(@, "none", <<>>) EXCEPT !.exc = exc, !.how = "raise"]]
    /\ lock' = Released
    /\ pc' = [pc EXCEPT ![p] = "stop_notify"]

\* line 181: start_notify(PMD_CONTROL_POINT, handle_response) completes
start_notify(p) ==
    /\ pc[p] = "start_notify"
    /\ IF is_connected
       THEN /\ cp_handler' = p
            /\ pc' = [pc EXCEPT ![p] = "write"]
            /\ UNCHANGED << lock, txn >>
       ELSE /\ Raise(p, "BleakError")
            /\ UNCHANGED cp_handler
    /\ UNCHANGED << input, output, device_time_delta, given, capabilities, is_connected, config, callbacks, current_config, p_timestamp,
                    device, call, result >>

\* the device keeps at most MaxPending unanswered requests
Pending(d, req) ==
    IF Len(d) >= MaxPending THEN Append(Tail(d), req) ELSE Append(d, req)

\* lines 182-186: write_gatt_char(PMD_CONTROL_POINT, payload) completes
write_gatt_char(p) ==
    /\ pc[p] = "write"
    /\ IF is_connected
       THEN /\ device' = Pending(device, [command |-> txn[p].command,
                                          measurement_type |-> txn[p].measurement_type])
            /\ pc' = [pc EXCEPT ![p] = "wait"]
            /\ UNCHANGED << lock, txn >>
       ELSE /\ Raise(p, "BleakError")
            /\ UNCHANGED device
    /\ UNCHANGED << input, output, device_time_delta, given, capabilities, is_connected, config, callbacks, current_config, p_timestamp,
                    cp_handler, call, result >>

\* lines 187-188: the waiter resumes after response_event was set; the lock is
\* released and the return value is built from the closure variables
response_received(p) ==
    /\ pc[p] = "wait"
    /\ txn[p].response_event
    /\ txn' = [txn EXCEPT ![p] =
                 [Returned(@, @.response_status, @.response_params)
                    EXCEPT !.how = "response"]]
    /\ lock' = Released
    /\ pc' = [pc EXCEPT ![p] = "stop_notify"]
    /\ UNCHANGED << input, output, device_time_delta, given, capabilities, is_connected, config, callbacks, current_config, p_timestamp,
                    cp_handler, device, call, result >>

\* a timeout whose `except` returns to the caller past the finally clause
response_timeout_unfinished(p) ==
    /\ pc[p] = "wait"
    /\ ~txn[p].response_event
    /\ txn' = [txn EXCEPT ![p] = NoTxn]
    /\ lock' = Released
    /\ Finish(p, call[p].op, call[p].nt, "ProtocolCommandFailed")
    /\ UNCHANGED << input, output, device_time_delta, given, capabilities, is_connected, config, callbacks, current_config, p_timestamp,
                    cp_handler, device >>

\* lines 187, 189-191: wait_for gives up after 5 s without an accepted response
response_timeout(p) ==
    /\ pc[p] = "wait"
    /\ ~txn[p].response_event
    /\ txn' = [txn EXCEPT ![p] =
                 [Returned(@, "ERROR_INVALID_STATE", <<>>)
                    EXCEPT !.how = "timeout", !.dropped = ~is_connected]]
    /\ lock' = Released
    /\ pc' = [pc EXCEPT ![p] = "stop_notify"]
    /\ UNCHANGED << input, output, device_time_delta, given, capabilities, is_connected, config, callbacks, current_config, p_timestamp,
                    cp_handler, device, call, result >>

\* handle_response, lines 169-177, run on the closure of task p
handle_response(t, command, measurement_type, status, data5) ==
    IF command # t.command \/ measurement_type # t.measurement_type
    THEN t
    ELSE IF status # "SUCCESS"
    THEN [t EXCEPT !.response_status = status, !.response_event = TRUE,
                   !.accepted = Append(@, status)]
    ELSE IF deserialize_pmd_parameters(data5).err
    THEN [t EXCEPT !.response_status = status]
    ELSE [t EXCEPT !.response_status = status,
                   !.response_params = deserialize_pmd_parameters(data5).d,
                   !.response_event = TRUE,
                   !.accepted = Append(@, status)]

\* the parameter bytes of an answer: the settings after
\* GET_MEASUREMENT_SETTINGS, nothing or the settings after a start or a stop
ResponseData ==
    IF device # <<>> /\ Head(device).command = "GET_MEASUREMENT_SETTINGS"
    THEN {capabilities}
    ELSE {<<>>, capabilities}

\* the device answers its oldest unanswered request; the notification goes to
\* the handler subscribed at that moment, or nowhere (a handler whose request
\* has returned writes variables nothing reads any more)
device_response(status, data5) ==
    /\ is_connected
    /\ device # <<>>
    /\ device' = Tail(device)
    /\ txn' = IF cp_handler = 0 \/ pc[cp_handler] = "stop_notify" THEN txn
              ELSE [txn EXCEPT ![cp_handler] =
                       handle_response(@, Head(device).command,
                                       Head(device).measurement_type, status, data5)]
    /\ UNCHANGED << input, output, device_time_delta, given, capabilities, is_connected, config, callbacks, current_config, p_timestamp,
                    lock, cp_handler, pc, call, result >>

(***************************************************************************)
(* What the callers do with the outcome of the request: exc is the         *)
(* exception it raised ("none" when it returned), status what it returned. *)
(***************************************************************************)
\* `del self._callbacks[nt]; del self._current_config[nt]`: the exception the
\* two statements raise
DelRaises(nt) ==
    nt \notin DOMAIN callbacks \/ nt \notin DOMAIN current_config

\* a rollback that forgets the callback and keeps the configuration
DelCallbackOnly(nt) ==
    /\ callbacks' = IF nt \in DOMAIN callbacks THEN Del(callbacks, nt) ELSE callbacks
    /\ UNCHANGED current_config

DelBoth(nt) ==
    /\ callbacks' = IF nt \in DOMAIN callbacks THEN Del(callbacks, nt) ELSE callbacks
    /\ current_config' = IF nt \in DOMAIN callbacks /\ nt \in DOMAIN current_config
                         THEN Del(current_config, nt) ELSE current_config

\* register_notification, lines 363-369
register_done(p, exc, status) ==
    LET nt == call[p].nt
    IN  /\ IF exc = "none" /\ status = "SUCCESS"
           THEN /\ Finish(p, "register", nt, "ok")
                /\ UNCHANGED << callbacks, current_config >>
           ELSE /\ DelBoth(nt)
                /\ Finish(p, "register", nt,
                          IF DelRaises(nt) THEN "KeyError"
                          ELSE IF exc # "none" THEN exc
                          ELSE "ProtocolCommandFailed")
        /\ txn' = [txn EXCEPT ![p] = NoTxn]
        /\ UNCHANGED << config, lock >>

\* a removal that forgets the callback whatever the device answered
remove_done_unconditional(p, exc, status) ==
    LET nt == call[p].nt
    IN  /\ DelBoth(nt)
        /\ Finish(p, "remove", nt,
                  IF exc # "none" THEN exc
                  ELSE IF status # "SUCCESS" THEN "ProtocolCommandFailed"
                  ELSE IF DelRaises(nt) THEN "KeyError" ELSE "ok")
        /\ txn' = [txn EXCEPT ![p] = NoTxn]
        /\ UNCHANGED << config, lock >>

\* remove_notification, lines 400-406
remove_done(p, exc, status) ==
    LET nt == call[p].nt
    IN  /\ IF exc = "none" /\ status = "SUCCESS"
           THEN /\ DelBoth(nt)
                /\ Finish(p, "remove", nt, IF DelRaises(nt) THEN "KeyError" ELSE "ok")
           ELSE /\ Finish(p, "remove", nt,
                          IF exc # "none" THEN exc ELSE "ProtocolCommandFailed")
                /\ UNCHANGED << callbacks, current_config >>
        /\ txn' = [txn EXCEPT ![p] = NoTxn]
        /\ UNCHANGED << config, lock >>

\* _initialize_pmd_service, lines 224-228, and connect, lines 309-311: the
\* settings of one measurement are stored, the next one is asked for
settings_done(p, exc, status, params) ==
    LET i == call[p].idx
        nt == PMDMeasurements[i]
    IN  /\ UNCHANGED << callbacks, current_config >>
        /\ IF exc # "none"
           THEN /\ Finish(p, "connect", "none", "ConnectionFailure")
                /\ txn' = [txn EXCEPT ![p] = NoTxn]
                /\ UNCHANGED << config, lock >>
           ELSE /\ config' = IF status = "SUCCESS" THEN Put(config, nt, params) ELSE config
                /\ IF i < Len(PMDMeasurements)
                   THEN /\ Begin(p, "GET_MEASUREMENT_SETTINGS", PMDMeasurements[i + 1], <<>>)
                        /\ call' = [call EXCEPT ![p].idx = i + 1]
                        /\ UNCHANGED result
                   ELSE /\ Finish(p, "connect", "none", "ok")
                        /\ txn' = [txn EXCEPT ![p] = NoTxn]
                        /\ UNCHANGED lock

\* line 193, the finally clause: stop_notify(PMD_CONTROL_POINT) completes, or
\* raises BleakError on a link that is down, and the caller goes on
stop_notify(p) ==
    /\ pc[p] = "stop_notify"
    /\ cp_handler' = IF is_connected THEN 0 ELSE cp_handler
    /\ LET exc == IF is_connected THEN txn[p].exc ELSE "BleakError"
       IN  CASE call[p].op = "register" -> register_done(p, exc, txn[p].ret_status)
             [] call[p].op = "remove" -> remove_done(p, exc, txn[p].ret_status)
             [] call[p].op = "connect" ->
                    settings_done(p, exc, txn[p].ret_status, txn[p].ret_params)
    /\ UNCHANGED << input, output, device_time_delta, given, capabilities, is_connected, p_timestamp, device >>

(***************************************************************************)
(* connect, lines 294-311.                                                 *)
(***************************************************************************)
connect(p) ==
    /\ pc[p] = "idle"
    /\ IF is_connected
       THEN EndNoEffect(p, "connect", "none", "ok")
       ELSE /\ pc' = [pc EXCEPT ![p] = "connecting"]
            /\ call' = [call EXCEPT ![p] = [op |-> "connect", nt |-> "none", idx |-> 0]]
            /\ UNCHANGED << input, output, device_time_delta, given, capabilities, is_connected, config, callbacks, current_config,
                            p_timestamp, lock, cp_handler, device, txn,
                            result >>

\* lines 299-306: the transport connects (or fails to); the name and the
\* device information are read
client_connect(p, ok) ==
    /\ pc[p] = "connecting"
    /\ IF ok
       THEN /\ is_connected' = TRUE
            /\ pc' = [pc EXCEPT ![p] = "battery"]
            /\ UNCHANGED << call, result >>
       ELSE /\ Finish(p, "connect", "none", "ConnectionFailure")
            /\ UNCHANGED is_connected
    /\ UNCHANGED << input, output, device_time_delta, given, capabilities, config, callbacks, current_config, p_timestamp,
                    lock, cp_handler, device, txn >>

\* _enable_battery_notifications, lines 197-205
enable_battery_notifications(p) ==
    /\ pc[p] = "battery"
    /\ IF is_connected
       THEN /\ config' = Put(config, "BATTERY_LVL", <<>>)
            /\ pc' = [pc EXCEPT ![p] = "pmd_init"]
            /\ UNCHANGED << call, result >>
       ELSE /\ Finish(p, "connect", "none", "BatteryReadFailed")
            /\ UNCHANGED config
    /\ UNCHANGED << input, output, device_time_delta, given, capabilities, is_connected, callbacks, current_config, p_timestamp, lock,
                    cp_handler, device, txn >>

\* _initialize_pmd_service, lines 222-225: PMD_DATA is subscribed and the
\* first measurement's settings are asked for
initialize_pmd_service(p) ==
    /\ pc[p] = "pmd_init"
    /\ IF is_connected
       THEN /\ Begin(p, "GET_MEASUREMENT_SETTINGS", PMDMeasurements[1], <<>>)
            /\ call' = [call EXCEPT ![p].idx = 1]
            /\ UNCHANGED result
       ELSE /\ Finish(p, "connect", "none", "ConnectionFailure")
            /\ UNCHANGED << lock, txn >>
    /\ UNCHANGED << input, output, device_time_delta, given, capabilities, is_connected, config, callbacks, current_config, p_timestamp,
                    cp_handler, device >>

\* the link drops (_handle_disconnect, lines 58-65): the transport forgets the
\* subscriptions and the device its unanswered requests
handle_disconnect ==
    /\ is_connected
    /\ is_connected' = FALSE
    /\ cp_handler' = 0
    /\ device' = <<>>
    /\ UNCHANGED << input, output, device_time_delta, given, capabilities, config, callbacks, current_config, p_timestamp,
                    lock, pc, call, txn, result >>

Next ==
    \/ \E p \in ConnectingTasks : connect(p)
    \/ \E p \in Procs, ok \in BOOLEAN : client_connect(p, ok)
    \/ \E p \in Procs : enable_battery_notifications(p)
    \/ \E p \in Procs : initialize_pmd_service(p)
    \/ \E p \in Procs, nt \in CalledTypes, cb \in Callbacks, parameters \in Overrides :
           register_notification(p, nt, cb, parameters)
    \/ \E p \in Procs, nt \in CalledTypes : remove_notification(p, nt)
    \/ \E p \in Procs : enable_hr_notification(p)
    \/ \E p \in Procs : call_returned(p)
    \/ \E p \in Procs : lock_acquired(p)
    \/ \E p \in Procs : start_notify(p)
    \/ \E p \in Procs : write_gatt_char(p)
    \/ \E p \in Procs : response_received(p)
    \/ \E p \in Procs : response_timeout(p)
    \/ \E p \in Procs : stop_notify(p)
    \/ \E status \in PMDStatuses, data5 \in ResponseData :
           device_response(status, data5)
    \/ handle_disconnect

Spec ==
    Init /\ [][Next]_vars

(***************************************************************************)
(* One register_notification call on a connected client whose capability   *)
(* configs were read from the device: the capability bytes and the         *)
(* `parameters` of the call are drawn in the initial state.                *)
(***************************************************************************)
\* parameter bytes of the answer to GET_MEASUREMENT_SETTINGS:
\* SAMPLE_RATE [25, 50]; with RESOLUTION 16; with RANGE [2, 4];
\* SAMPLE_RATE [130] with RESOLUTION [14, 16]
CapabilityData ==
    { <<0, 2, 25, 0, 50, 0>>,
      <<0, 2, 25, 0, 50, 0, 1, 1, 16, 0>>,
      <<0, 2, 25, 0, 50, 0, 2, 2, 2, 0, 4, 0>>,
      <<1, 2, 14, 0, 16, 0, 0, 2, 130, 0, 200, 0>> }

GivenOverrides ==
    { <<>>,
      <<[k |-> "SAMPLE_RATE", v |-> Scalar(25)]>>,
      <<[k |-> "SAMPLE_RATE", v |-> Scalar(50)]>>,
      <<[k |-> "SAMPLE_RATE", v |-> Scalar(130)]>>,
      <<[k |-> "RESOLUTION", v |-> Scalar(16)]>>,
      <<[k |-> "RANGE", v |-> Scalar(8)]>>,
      <<[k |-> "RANGE", v |-> Scalar(2)], [k |-> "SAMPLE_RATE", v |-> Scalar(25)]>> }

\* the state connect leaves (lines 294-311) when every
\* GET_MEASUREMENT_SETTINGS was answered SUCCESS
InitRegister ==
    /\ capabilities \in CapabilityData
    /\ is_connected = TRUE
    /\ config = [nt \in NotificationTypes |->
                   IF NotificationValue(nt) < 100
                   THEN deserialize_pmd_parameters(capabilities).d ELSE <<>>]
    /\ callbacks = <<>>
    /\ current_config = <<>>
    /\ p_timestamp = <<>>
    /\ lock = [locked |-> FALSE, waiters |-> <<>>]
    /\ cp_handler = 0
    /\ device = <<>>
    /\ pc = [p \in Procs |-> "idle"]
    /\ call = [p \in Procs |-> NoCall]
    /\ txn = [p \in Procs |-> NoTxn]
    /\ result = [p \in Procs |-> NoResult]
    /\ given \in GivenOverrides
    /\ device_time_delta = 0
    /\ input = <<>>
    /\ output = <<>>

NextRegister ==
    \E nt \in NotificationTypes, cb \in Callbacks :
        register_notification(1, nt, cb, given)

SpecRegister ==
    InitRegister /\ [][NextRegister]_vars

(***************************************************************************)
(* The functions of utils.py, each applied to an argument drawn in the     *)
(* initial state.  The arguments are built from the values they encode, by *)
(* the wire format of the device, which is written down here on its own.   *)
(***************************************************************************)
\* the width of one value of a setting on the wire
WireWidth(setting) ==
    CASE setting = "CHANNELS" -> 1
      [] setting = "FACTOR" -> 4
      [] setting = "RANGE_MILLIUNIT" -> 8
      [] OTHER -> 2

RECURSIVE WireValue(_, _)
\* one value, least significant byte first
WireValue(n, width) ==
    IF width = 0 THEN <<>> ELSE <<n % 256>> \o WireValue(n \div 256, width - 1)

RECURSIVE WireValues(_, _)
WireValues(vals, width) ==
    IF vals = <<>> THEN <<>>
    ELSE WireValue(vals[1], width) \o WireValues(Tail(vals), width)

RECURSIVE WireEncoding(_)
\* setting id, count, then the values, entry after entry
WireEncoding(m) ==
    IF m = <<>> THEN <<>>
    ELSE <<PMDSettingId(m[1].k), IF m[1].v.list THEN Len(m[1].v.v) ELSE 1>>
         \o WireValues(m[1].v.v, WireWidth(m[1].k))
         \o WireEncoding(Tail(m))

\* the values a setting takes in the arguments: those that fit its width
SettingNumbers(setting) ==
    { n \in {1, 300, 70000} : WireWidth(setting) >= 4 \/ n < 256 ^ WireWidth(setting) }

\* scalars and lists of length 0, 1 and 2
SettingValues(setting) ==
    { Scalar(n) : n \in SettingNumbers(setting) }
    \cup { List(<<>>) }
    \cup { List(<<n>>) : n \in SettingNumbers(setting) }
    \cup { List(<<n, k>>) : n \in SettingNumbers(setting), k \in SettingNumbers(setting) }

SettingMaps ==
    { <<[k |-> PMDSettingName(id), v |-> val]>> :
        id \in PMDSettingIds, val \in UNION { SettingValues(PMDSettingName(i)) : i \in PMDSettingIds } }

\* maps of one entry, and maps of two entries in either order
CodecMaps ==
    { m \in SettingMaps : m[1].v \in SettingValues(m[1].k) }
    \cup { <<[k |-> a, v |-> va], [k |-> b, v |-> vb]>> :
             a \in {"SAMPLE_RATE", "RANGE"}, b \in {"RESOLUTION"},
             va \in {Scalar(300), List(<<1, 300>>)}, vb \in {Scalar(1), List(<<300, 1>>)} }
    \cup { <<[k |-> "RESOLUTION", v |-> Scalar(1)], [k |-> "SAMPLE_RATE", v |-> List(<<300, 1>>)]>> }

SerializeInputs ==
    { [fn |-> "serialize", m |-> m] : m \in CodecMaps }

\* a trailing entry cut short: id and count, then fewer bytes than one value
\* (the low byte of the value, then zeros)
TruncatedTails ==
    { <<id, count>> \o [i \in 1..k |-> IF i = 1 THEN low ELSE 0] :
        id \in PMDSettingIds, count \in {1, 2}, low \in {1, 9}, k \in 0..7 }

DeserializeInputs ==
    { [fn |-> "deserialize", m |-> m, data |-> WireEncoding(m) \o tail] :
        m \in { <<>>,
                <<[k |-> "SAMPLE_RATE", v |-> List(<<25, 50>>)]>>,
                <<[k |-> "RESOLUTION", v |-> Scalar(16)]>> },
        tail \in { t \in TruncatedTails :
                     Len(t) - 2 < WireWidth(PMDSettingName(t[1])) } }

\* a signed sample at a width, little-endian two's complement
WireSigned(n, width) ==
    [i \in 1..width |-> (((n + 256 ^ width) % (256 ^ width)) \div (256 ^ (i - 1))) % 256]

RECURSIVE WireSamples(_, _)
WireSamples(samples, width) ==
    IF samples = <<>> THEN <<>>
    ELSE WireSigned(samples[1], width) \o WireSamples(Tail(samples), width)

\* the samples of a stream, up to two of them, taken from a set of values
SampleLists(values) ==
    {<<>>} \cup { <<a>> : a \in values } \cup { <<a, b>> : a \in values, b \in values }

EcgInputs ==
    { [fn |-> "ecg", frame_type |-> 0, lead_1 |-> s, data |-> WireSamples(s, 3)] :
        s \in SampleLists({-8388608, -1, 0, 70000, 8388607}) }

\* the extreme and an ordinary value of a signed sample of a width
AccValues(width) ==
    CASE width = 1 -> {-128, 5}
      [] width = 2 -> {-32768, 300}
      [] width = 3 -> {-8388608, 70000}

RECURSIVE Interleave(_, _, _, _)
\* x, y, z of the first sample, then of the next
Interleave(x, y, z, width) ==
    IF x = <<>> THEN <<>>
    ELSE WireSigned(x[1], width) \o WireSigned(y[1], width) \o WireSigned(z[1], width)
         \o Interleave(Tail(x), Tail(y), Tail(z), width)

\* the frames of a frame type: three axes of as many samples of its width
AccFields(ft) ==
    { f \in [frame_type : {ft}, x : SampleLists(AccValues(ft + 1)),
              y : SampleLists(AccValues(ft + 1)), z : SampleLists(AccValues(ft + 1))] :
        Len(f.x) = Len(f.y) /\ Len(f.y) = Len(f.z) }

AccFrames ==
    { [fn |-> "acc", frame_type |-> f.frame_type, x |-> f.x, y |-> f.y, z |-> f.z,
       data |-> Interleave(f.x, f.y, f.z, f.frame_type + 1)] :
        f \in UNION { AccFields(ft) : ft \in 0..2 } }

\* a heart-rate measurement: flags, the heart rate (one or two bytes by bit
\* 0), the energy expended (by bit 3), the RR intervals in 1/1024 s (by bit 4)
HrFields ==
    { [flags |-> f, heart_rate |-> hr, energy |-> e, rr |-> rr] :
        f \in 0..31, hr \in {60, 300}, e \in {0, 513},
        rr \in {<<>>, <<1024>>, <<800, 1500>>} }

HrEncoding(h) ==
    <<h.flags>>
    \o (IF h.flags % 2 = 1 THEN WireValues(<<h.heart_rate>>, 2) ELSE <<h.heart_rate>>)
    \o (IF (h.flags \div 8) % 2 = 1 THEN WireValues(<<h.energy>>, 2) ELSE <<>>)
    \o (IF (h.flags \div 16) % 2 = 1 THEN WireValues(h.rr, 2) ELSE <<>>)

\* the measurements that say nothing the flags leave out, and inputs too
\* short to hold a heart rate
HrInputs ==
    { [fn |-> "hr", short |-> FALSE, fields |-> h, data |-> HrEncoding(h)] :
        h \in { g \in HrFields :
                  /\ g.flags % 2 = 0 => g.heart_rate < 256
                  /\ (g.flags \div 8) % 2 = 0 => g.energy = 0
                  /\ (g.flags \div 16) % 2 = 0 => g.rr = <<>> } }
    \cup { [fn |-> "hr", short |-> TRUE, data |-> d] : d \in {<<>>, <<0>>, <<17>>} }

\* everything but the argument and the outcome of the function under study
client ==
    << capabilities, is_connected, config, callbacks, current_config, p_timestamp, lock,
       cp_handler, device, pc, call, txn, result, given, device_time_delta >>

InitUtils ==
    /\ capabilities \in DeviceCapabilities
    /\ is_connected = FALSE
    /\ config = [nt \in {"HEAR_RATE", "DISCONNECT"} |-> <<>>]
    /\ callbacks = <<>>
    /\ current_config = <<>>
    /\ p_timestamp = <<>>
    /\ lock = [locked |-> FALSE, waiters |-> <<>>]
    /\ cp_handler = 0
    /\ device = <<>>
    /\ pc = [p \in Procs |-> "idle"]
    /\ call = [p \in Procs |-> NoCall]
    /\ txn = [p \in Procs |-> NoTxn]
    /\ result = [p \in Procs |-> NoResult]
    /\ given = <<>>
    /\ device_time_delta = 0
    /\ input \in SerializeInputs \cup DeserializeInputs \cup EcgInputs \cup AccFrames
                 \cup HrInputs
    /\ output = <<>>

\* serialize_pmd_parameters(m)
call_serialize ==
    /\ input.fn = "serialize"
    /\ output = <<>>
    /\ output' = IF SerializeRaises(input.m)
                 THEN [stage |-> "serialized", err |-> "OverflowError", data |-> <<>>]
                 ELSE [stage |-> "serialized", err |-> "none",
                       data |-> serialize_pmd_parameters(input.m)]
    /\ UNCHANGED << client, input >>

\* deserialize_pmd_parameters, of the bytes given or of those just serialized
call_deserialize ==
    /\ \/ input.fn = "deserialize" /\ output = <<>>
       \/ input.fn = "serialize" /\ output # <<>>
            /\ output.stage = "serialized" /\ output.err = "none"
    /\ LET data == IF input.fn = "deserialize" THEN input.data ELSE output.data
           r == deserialize_pmd_parameters(data)
       IN  output' = [stage |-> "deserialized",
                      err |-> IF r.err THEN "ValueError" ELSE "none",
                      data |-> data, d |-> r.d]
    /\ UNCHANGED << client, input >>

call_process_ecg ==
    /\ input.fn = "ecg"
    /\ output = <<>>
    /\ output' = process_ecg_samples(input.frame_type, input.data)
    /\ UNCHANGED << client, input >>

call_process_acc ==
    /\ input.fn = "acc"
    /\ output = <<>>
    /\ output' = process_acc_samples(input.frame_type, input.data)
    /\ UNCHANGED << client, input >>

call_process_hr ==
    /\ input.fn = "hr"
    /\ output = <<>>
    /\ output' = process_hr_samples(input.data)
    /\ UNCHANGED << client, input >>

NextUtils ==
    \/ call_serialize
    \/ call_deserialize
    \/ call_process_ecg
    \/ call_process_acc
    \/ call_process_hr

SpecUtils ==
    InitUtils /\ [][NextUtils]_vars

(***************************************************************************)
(* The data path: _handle_pmd_data (polar_h10.py) and get_timestamps_list  *)
(* (utils.py).  Times are integers of nanoseconds.                         *)
(***************************************************************************)
Abs(n) ==
    IF n < 0 THEN -n ELSE n

\* every sample of a frame stamped with the time of the first one
emitted_flat(first, i, timestamp_delta, delta) ==
    first + delta

\* utils.py line 111: the timestamp of the sample of index i (from 0)
emitted(first, i, timestamp_delta, delta) ==
    first + i * timestamp_delta + delta

\* get_timestamps_list, utils.py lines 94-111: [err, time].  For integers
\* abs(c / d) > 0.1 is abs(c) > d // 10.
get_timestamps_list(n_samples, sample_rate, timestamp, p_ts, delta) ==
    IF n_samples <= 0 \/ sample_rate <= 0 \/ timestamp < p_ts
    THEN [err |-> "ValueError", time |-> <<>>]
    ELSE LET nominal == 1000000000 \div sample_rate
             calculate_timestamp_delta == (timestamp - p_ts) \div n_samples
             lost == Abs(calculate_timestamp_delta - nominal) > nominal \div 10
             timestamp_delta == IF lost THEN nominal ELSE calculate_timestamp_delta
             first == (IF lost THEN timestamp - n_samples * nominal ELSE p_ts)
                          + timestamp_delta
         IN  [err |-> "none",
              time |-> [i \in 1..n_samples |->
                          emitted(first, i - 1, timestamp_delta, delta)]]

\* PMDMeasurement(data[0]) and NotificationType(measurement_type.value)
MeasurementOf(byte) ==
    CASE byte = 0 -> "ECG"
      [] byte = 2 -> "ACC"

\* a handler that never corrects the offset between the two clocks
synchronize_never(delta, now, timestamp) ==
    delta

\* lines 95-98: device_time_delta after a frame stamped timestamp by the
\* device has arrived at host time now
synchronize(delta, now, timestamp) ==
    IF Abs(now - timestamp - delta) > 1000000000
    THEN delta + (now - timestamp - delta)
    ELSE delta

\* a lookup that finds a callback for every kind
has_callback_always(notify_type) ==
    TRUE

\* lines 101-102: self._callbacks.get(notify_type) is not None
has_callback(notify_type) ==
    notify_type \in DOMAIN callbacks

\* lines 116 and 121: the subscripts that raise KeyError
LookupRaises(notify_type) ==
    \/ notify_type \notin DOMAIN current_config
    \/ ~DictHas(current_config[notify_type], "SAMPLE_RATE")

\* what the handler did with a frame: the exception that left it, whether the
\* callback was called, and with what
Outcome(err, delivered, res) ==
    [err |-> err, delivered |-> delivered, result |-> res]

\* _handle_pmd_data, lines 85-128, on the notification `data` at host time now
handle_pmd_data(data, now) ==
    LET notify_type == MeasurementOf(data[1])
        timestamp == from_bytes(Slice(data, 1, 9))
        frame_type == data[10]
        samples == Slice(data, 10, Len(data))
        delta == synchronize(device_time_delta, now, timestamp)
        decoded == IF notify_type = "ECG"
                   THEN process_ecg_samples(frame_type, samples)
                   ELSE process_acc_samples(frame_type, samples)
        sample_rate == DictGet(current_config[notify_type], "SAMPLE_RATE").v[1]
        times == get_timestamps_list(decoded.n_samples, sample_rate, timestamp,
                                     p_timestamp[notify_type], delta)
    IN  /\ IF input = <<>> THEN TRUE ELSE now >= input.now
        /\ input' = [fn |-> "pmd_data", data |-> data, now |-> now]
        /\ device_time_delta' = delta
        /\ IF ~has_callback(notify_type)
           THEN \* lines 100-103
                /\ output' = Outcome("none", FALSE, <<>>)
                /\ UNCHANGED p_timestamp
           ELSE IF LookupRaises(notify_type)
           THEN \* line 116
                /\ output' = Outcome("KeyError", FALSE, <<>>)
                /\ UNCHANGED p_timestamp
           ELSE IF decoded.err # "none"
           THEN \* lines 113-118: the except clause logs and falls through to
                \* the use of n_samples, which was never bound
                /\ output' = Outcome("UnboundLocalError", FALSE, <<>>)
                /\ UNCHANGED p_timestamp
           ELSE IF notify_type \notin DOMAIN p_timestamp
           THEN \* line 121
                /\ output' = Outcome("KeyError", FALSE, <<>>)
                /\ UNCHANGED p_timestamp
           ELSE IF times.err # "none"
           THEN /\ output' = Outcome(times.err, FALSE, <<>>)
                /\ UNCHANGED p_timestamp
           ELSE /\ p_timestamp' = [p_timestamp EXCEPT ![notify_type] = timestamp]
                /\ output' = Outcome("none", TRUE,
                                     [time |-> times.time, processed |-> decoded])
        /\ UNCHANGED << given, capabilities, is_connected, config, callbacks,
                        current_config, lock, cp_handler, device, pc, call, txn,
                        result >>

(***************************************************************************)
(* The data handler on a connected client with measurements registered.    *)
(***************************************************************************)
\* the sets of kinds whose notifications are registered
RegisteredSets ==
    { {"ECG"}, {"ECG", "ACC"} }

\* device timestamps of the frames
FrameTimestamps ==
    {0, 20000000, 40000001, 58000001}

\* host times at which frames arrive
HostTimes ==
    {900000000, 1500000000, 1600000000}

\* frame types: 0 is decoded for both kinds, 3 for neither
FrameTypes ==
    {0, 3}

\* sample bytes: none, one block, two blocks, and a block and a part of one
FrameSamples ==
    { <<>>, <<1, 0, 0>>, <<1, 0, 0, 255, 255, 255>>, <<1, 0, 0, 2>> }

\* the notifications of PMD_DATA: kind, timestamp, frame type, samples
DataFrames ==
    { <<mt>> \o WireValue(ts, 8) \o <<ft>> \o s :
        mt \in {0, 2}, ts \in FrameTimestamps, ft \in FrameTypes, s \in FrameSamples }

InitData ==
    /\ capabilities \in DeviceCapabilities
    /\ is_connected = TRUE
    /\ config = [nt \in NotificationTypes |->
                   IF NotificationValue(nt) < 100
                   THEN deserialize_pmd_parameters(capabilities).d ELSE <<>>]
    /\ \E reg \in RegisteredSets :
         /\ callbacks = [nt \in reg |-> "cb"]
         /\ current_config = [nt \in reg |-> DefaultParams(config[nt])]
         /\ p_timestamp = [nt \in reg |-> 0]
    /\ lock = [locked |-> FALSE, waiters |-> <<>>]
    /\ cp_handler = 0
    /\ device = <<>>
    /\ pc = [p \in Procs |-> "idle"]
    /\ call = [p \in Procs |-> NoCall]
    /\ txn = [p \in Procs |-> NoTxn]
    /\ result = [p \in Procs |-> NoResult]
    /\ given = <<>>
    /\ device_time_delta = 0
    /\ input = <<>>
    /\ output = <<>>

NextData ==
    \E data \in DataFrames, now \in HostTimes : handle_pmd_data(data, now)

SpecData ==
    InitData /\ [][NextData]_vars

(***************************************************************************)
(* Properties.                                                             *)
(***************************************************************************)
\* the task p is inside `async with self._lock` (lines 180-188)
InFlight(p) ==
    pc[p] \in {"start_notify", "write", "wait"}

\* C1: at most one control-point transaction is in flight: no two tasks are
\* between taking the lock and the end of their wait at the same time, so a
\* second call neither subscribes nor writes before the first one has
\* accepted a response or timed out.
C1_OneTransactionInFlight ==
    /\ \A p, q \in Procs : InFlight(p) /\ InFlight(q) => p = q
    /\ \A p \in Procs : InFlight(p) => lock.locked

\* a request is awaiting its response while another call queues for the lock
C1_SecondCallWaits ==
    \E p, q \in Procs : pc[p] = "wait" /\ pc[q] = "acquire"

\* this step delivers a notification to the handle_response of the pending
\* transaction of task p
Notified(p) ==
    /\ device # <<>>
    /\ device' = Tail(device)
    /\ is_connected'
    /\ cp_handler = p
    /\ pc[p] \in {"write", "wait"}

\* the notification being delivered carries the command and the measurement
\* kind of the transaction of task p
Matches(p) ==
    /\ Head(device).command = txn[p].command
    /\ Head(device).measurement_type = txn[p].measurement_type

\* C2: a notification whose command or measurement kind differs from the
\* pending request changes nothing of the transaction; a matching one
\* resolves it, exactly once, with the status of that notification, and that
\* is the status the transaction returns.
C2_ResolvedOnceByMatching ==
    [][\A p \in Procs :
         /\ Notified(p) =>
              IF Matches(p)
              THEN /\ txn'[p].response_event
                   /\ Len(txn'[p].accepted) = 1
                   /\ txn'[p].response_status = txn'[p].accepted[1]
              ELSE txn'[p] = txn[p]
         /\ pc[p] = "wait" /\ txn[p].response_event /\ pc'[p] = "stop_notify" =>
              txn'[p].ret_status = txn[p].accepted[1]]_vars

\* C3: the pair a transaction returns is consistent: the parameters are
\* non-empty only together with SUCCESS, also when several matching
\* notifications arrived before the waiter resumed.
C3_ReturnedPairConsistent ==
    \A p \in Procs :
        pc[p] = "stop_notify" /\ txn[p].how \in {"response", "timeout"} =>
            (txn[p].ret_params # <<>> => txn[p].ret_status = "SUCCESS")

\* C4: a transaction that times out releases the lock and hands its caller
\* the pair (ERROR_INVALID_STATE, {}): no error of the transport reaches the
\* caller.
C4_TimeoutReturnsInvalidState ==
    [][\A p \in Procs :
         /\ pc[p] = "wait" /\ pc'[p] = "stop_notify" =>
              /\ ~lock'.locked
              /\ txn'[p].how = "timeout" =>
                   /\ txn'[p].ret_status = "ERROR_INVALID_STATE"
                   /\ txn'[p].ret_params = <<>>
         /\ pc[p] = "stop_notify" /\ txn[p].how = "timeout" /\ pc'[p] = "done" =>
              result'[p].err \notin {"BleakError", "ConnectionFailure"}]_vars

\* C5: a registration that fails after the callback and the ActiveConfig were
\* installed leaves neither behind, for the PMD kinds and for HEAR_RATE.
C5_FailedRegistrationUnwinds ==
    [][\A p \in Procs :
         call[p].op = "register" /\ pc'[p] = "done" /\ result'[p].err # "ok" =>
             /\ call[p].nt \notin DOMAIN callbacks'
             /\ call[p].nt \notin DOMAIN current_config']_vars

\* C6: remove_notification of a PMD kind deletes the callback and the
\* ActiveConfig if and only if STOP_MEASUREMENT returned SUCCESS; on any other
\* returned status (the one of a timeout too) it fails with
\* ProtocolCommandFailed, and whenever it does not delete, both entries are as
\* they were.
C6_RemoveDeletesIffStopped ==
    [][\A p \in Procs :
         call[p].op = "remove" /\ NotificationValue(call[p].nt) < 100
           /\ pc'[p] # pc[p] =>
             LET nt == call[p].nt
                 ends == pc[p] = "stop_notify" /\ pc'[p] = "done"
                 returned == is_connected /\ txn[p].exc = "none"
             IN  IF ends /\ returned /\ txn[p].ret_status = "SUCCESS"
                 THEN /\ nt \notin DOMAIN callbacks'
                      /\ nt \notin DOMAIN current_config'
                 ELSE /\ callbacks' = callbacks
                      /\ current_config' = current_config
                      /\ ends /\ returned =>
                           result'[p].err = "ProtocolCommandFailed"]_vars

\* a removal was refused by the device and the stream is still registered
C6_RefusedRemovalKeepsEntries ==
    \E p \in Procs :
        /\ pc[p] = "done"
        /\ result[p] = [op |-> "remove", nt |-> "ECG", err |-> "ProtocolCommandFailed"]
        /\ "ECG" \in DOMAIN callbacks
        /\ "ECG" \in DOMAIN current_config

\* C7: remove_notification of a registered notification-only kind (HEAR_RATE,
\* BATTERY_LVL, DISCONNECT) that returns without error leaves the kind
\* without callback and without ActiveConfig.
C7_NotificationOnlyRemoved ==
    [][\A p \in Procs :
         pc[p] # "done" /\ pc'[p] = "done" /\ result'[p].op = "remove"
           /\ result'[p].err = "ok" /\ NotificationValue(result'[p].nt) >= 100 =>
             /\ result'[p].nt \notin DOMAIN callbacks'
             /\ result'[p].nt \notin DOMAIN current_config']_vars

\* this step is the start of register_notification(nt) in task p
RegisterStep(p, nt) ==
    /\ pc[p] = "idle"
    /\ \/ pc'[p] = "done" /\ result'[p].op = "register" /\ result'[p].nt = nt
       \/ pc'[p] \notin {"idle", "done"} /\ call'[p].op = "register" /\ call'[p].nt = nt

\* C8: register_notification of a kind without CapabilityConfig entry fails
\* with UnsupportedMeasurement, of a kind that has a callback with
\* AlreadyRegistered; either way nothing is installed, replaced or sent.
C8_RejectedRegisterNoEffect ==
    [][\A p \in Procs, nt \in NotificationTypes :
         RegisterStep(p, nt) /\ (nt \notin DOMAIN config \/ nt \in DOMAIN callbacks) =>
             /\ pc'[p] = "done"
             /\ result'[p].err = IF nt \notin DOMAIN config
                                 THEN "UnsupportedMeasurement" ELSE "AlreadyRegistered"
             /\ UNCHANGED << is_connected, config, callbacks, current_config,
                             p_timestamp, lock, cp_handler, device, txn >>]_vars

\* a second registration of a registered kind was refused
C8_SecondRegistrationRefused ==
    \E p \in Procs :
        /\ pc[p] = "done"
        /\ result[p].op = "register"
        /\ result[p].err = "AlreadyRegistered"
        /\ result[p].nt \in DOMAIN callbacks

\* the kind of the register call task 1 has made ("none" before it)
RegisteredKind ==
    IF pc[1] = "done" THEN result[1].nt ELSE call[1].nt

\* the options a capability entry lists (a single option when it is a scalar)
OptionsOf(c) ==
    { c.v[i] : i \in 1..Len(c.v) }

\* every override names a setting of the capability config and one of its
\* options
ValidOverrides(cap, ov) ==
    \A i \in 1..Len(ov) :
        /\ DictHas(cap, ov[i].k)
        /\ ov[i].v.v[1] \in OptionsOf(DictGet(cap, ov[i].k))

\* the ActiveConfig the overrides call for: every capability setting, with
\* the override, else the last listed option
ExpectedConfig(cap, ov) ==
    [i \in 1..Len(cap) |->
       [k |-> cap[i].k,
        v |-> IF DictHas(ov, cap[i].k) THEN DictGet(ov, cap[i].k)
              ELSE Scalar(cap[i].v.v[Len(cap[i].v.v)])]]

\* C9: with overrides that each name a capability setting and one of its
\* options (none at all included), registering a PMD kind passes validation,
\* and the ActiveConfig sent with START_MEASUREMENT holds every capability
\* setting, the override where given, else the last listed option.
C9_ValidOverridesAccepted ==
    \A nt \in {"ECG", "ACC"} :
        RegisteredKind = nt /\ ValidOverrides(config[nt], given) =>
            /\ pc[1] = "start_notify"
            /\ txn[1].command = "START_MEASUREMENT"
            /\ nt \in DOMAIN current_config
            /\ current_config[nt].d = ExpectedConfig(config[nt], given)
            /\ txn[1].payload = serialize_pmd_parameters(ExpectedConfig(config[nt], given))

\* C10: an override that names a setting the capability config lacks, or a
\* value that is none of its options, makes register_notification fail with
\* InvalidParameter for every supported kind; no callback is installed and
\* nothing is sent.
C10_InvalidOverridesRejected ==
    \A nt \in NotificationTypes :
        RegisteredKind = nt /\ ~ValidOverrides(config[nt], given) =>
            /\ pc[1] = "done"
            /\ result[1].err = "InvalidParameter"
            /\ callbacks = <<>>
            /\ current_config = <<>>
            /\ txn[1] = NoTxn
            /\ device = <<>>

\* C11: a response timeout can be told from a protocol command failure: the
\* pair a transaction returns after a timeout differs from the pair it returns
\* after any non-success answer of the device, its invalid-state status
\* included (the error register and remove raise is built from that pair).
C11_TimeoutDistinguishable ==
    \A p, q \in Procs :
        /\ pc[p] = "stop_notify" /\ txn[p].how = "timeout"
        /\ pc[q] = "stop_notify" /\ txn[q].how = "response"
        /\ txn[q].ret_status # "SUCCESS"
        => << txn[p].ret_status, txn[p].ret_params >>
             # << txn[q].ret_status, txn[q].ret_params >>

\* the task p is inside _pmd_control_point_request, before its finally clause
InRequest(p) ==
    pc[p] \in {"acquire", "start_notify", "write", "wait"}

\* C12: every way out of a transaction (an accepted response, a timeout, a
\* transport error while subscribing or writing) leads through the unsubscribe
\* of the control point before the call returns or raises, and once that
\* unsubscribe is done no handler is subscribed.
C12_UnsubscribeOnEveryExit ==
    [][\A p \in Procs :
         /\ InRequest(p) /\ pc'[p] # pc[p] =>
              \/ pc'[p] = "stop_notify"
              \/ pc'[p] \in {"start_notify", "write", "wait"}
         /\ pc[p] = "stop_notify" /\ pc'[p] # pc[p] => cp_handler' = 0]_vars

\* a transport error raised while subscribing or writing is on its way to the
\* caller, the unsubscribe still ahead
C12_ErrorPathUnsubscribes ==
    \E p \in Procs :
        pc[p] = "stop_notify" /\ txn[p].how = "raise" /\ txn[p].exc = "BleakError"

\* C13: decoding what serialize_pmd_parameters made of a setting map gives
\* the map back, for scalars and for lists of any length (0 and 1 included)
\* of values that fit the setting's width.
C13_CodecRoundTrip ==
    input # <<>> /\ input.fn = "serialize" /\ output # <<>> =>
        /\ output.err = "none"
        /\ output.stage = "deserialized" => output.d = input.m

\* C14: serialize_pmd_parameters emits, entry after entry, the setting id, the
\* count (1 for a scalar, the length for a list) and each value little-endian
\* at the setting's width: 1 byte for CHANNELS, 4 for FACTOR, 8 for
\* RANGE_MILLIUNIT, 2 for the others.
C14_SerializedLayout ==
    input # <<>> /\ input.fn = "serialize" /\ output # <<>>
      /\ output.stage = "serialized" =>
        /\ output.err = "none"
        /\ output.data = WireEncoding(input.m)

\* C15: a well-formed encoding followed by an entry cut short decodes without
\* error to the entries of the well-formed part alone: no value is built from
\* fewer bytes than its width, no entry comes out of the leftover bytes.
C15_TruncatedTailDropped ==
    input # <<>> /\ input.fn = "deserialize" /\ output # <<>> =>
        /\ output.err = "none"
        /\ output.d = input.m

\* C16: the sample decoders give back the encoded samples: lead_1 of an ECG
\* frame of type 0, x, y and z of an accelerometer frame of type 0, 1 or 2, in
\* order and with their signs, and n_samples is the length of each sequence.
C16_SamplesRecovered ==
    input # <<>> /\ output # <<>> =>
        /\ input.fn = "ecg" =>
             /\ output.err = "none"
             /\ output.lead_1 = input.lead_1
             /\ output.n_samples = Len(input.lead_1)
        /\ input.fn = "acc" =>
             /\ output.err = "none"
             /\ output.x = input.x /\ output.y = input.y /\ output.z = input.z
             /\ output.n_samples = Len(input.x)

\* an accelerometer frame of two samples was decoded, its first x negative
C16_NegativeSampleDecoded ==
    /\ input # <<>> /\ input.fn = "acc"
    /\ output # <<>> /\ output.err = "none"
    /\ output.n_samples = 2
    /\ output.x[1] < 0
    /\ output.z[2] > 0

\* bit k of the flag byte is set
FlagSet(flags, k) ==
    (flags \div (2 ^ k)) % 2 = 1

\* C17: the flag byte decides the layout of a heart-rate measurement: bit 0
\* the width of the heart rate, bit 2 the presence of sensor_contact (then
\* equal to bit 1), bit 3 the presence of energy_expended after the heart
\* rate, bit 4 the presence of rr_interval, holding every following 2-byte
\* value times 1000 div 1024; fewer than 2 bytes give None, not an error.
C17_HeartRateLayout ==
    input # <<>> /\ input.fn = "hr" /\ output # <<>> =>
        IF input.short
        THEN output.err = "none" /\ output.isNone
        ELSE LET h == input.fields
             IN  /\ output.err = "none" /\ ~output.isNone
                 /\ output.heart_rate = h.heart_rate
                 /\ output.has_sensor_contact = FlagSet(h.flags, 2)
                 /\ FlagSet(h.flags, 2) => output.sensor_contact = FlagSet(h.flags, 1)
                 /\ output.has_energy_expended = FlagSet(h.flags, 3)
                 /\ FlagSet(h.flags, 3) => output.energy_expended = h.energy
                 /\ output.has_rr_interval = FlagSet(h.flags, 4)
                 /\ FlagSet(h.flags, 4) =>
                      output.rr_interval =
                          [i \in 1..Len(h.rr) |-> (h.rr[i] * 1000) \div 1024]

\* a measurement with a 16-bit heart rate, the energy expended and two RR
\* intervals was decoded
C17_FullMeasurementDecoded ==
    /\ input # <<>> /\ input.fn = "hr" /\ ~input.short
    /\ output # <<>> /\ ~output.isNone
    /\ output.heart_rate = 300
    /\ output.has_sensor_contact /\ output.sensor_contact
    /\ output.has_energy_expended /\ output.energy_expended = 513
    /\ output.has_rr_interval /\ output.rr_interval = <<781, 1464>>

\* C18: while a transaction waits for its response on a link that stays up,
\* its handler stays the one subscribed to the control point: no step, the
\* unsubscribe of an earlier transaction included, takes the subscription
\* away from the transaction in flight.
C18_InFlightStaysSubscribed ==
    [][\A q \in Procs :
         /\ pc[q] = "wait" /\ cp_handler = q
         /\ pc'[q] = "wait" /\ is_connected /\ is_connected'
         => cp_handler' = q]_vars

\* C19: no register_notification or remove_notification call fails because
\* the callback or ActiveConfig entry it deletes was already deleted by a
\* concurrent call on the same kind.
C19_NoDoubleDelete ==
    \A p \in Procs :
        pc[p] = "done" /\ result[p].op \in {"register", "remove"} =>
            result[p].err # "KeyError"

\* the samples of a frame cannot be decoded: the frame type is not supported
\* for the kind, or the last sample block is partial
DecodeFails(data) ==
    LET frame_type == data[10]
        n == Len(data) - 10
    IN  IF data[1] = 0
        THEN frame_type # 0 \/ n % 3 # 0
        ELSE frame_type \notin 0..2 \/ n % (3 * (frame_type + 1)) # 0

\* C20: a frame of a registered kind whose decoding fails is dropped: the
\* callback is not called, the handler raises nothing, and device_time_delta
\* and the previous frame timestamps are what they were before the frame.
C20_FailedFrameDropped ==
    [][MeasurementOf(input'.data[1]) \in DOMAIN callbacks
         /\ DecodeFails(input'.data)
       => /\ ~output'.delivered
          /\ output'.err = "none"
          /\ device_time_delta' = device_time_delta
          /\ p_timestamp' = p_timestamp]_vars

\* C21: after a frame that was decoded and delivered, the stored previous
\* frame timestamp of its kind is the last timestamp handed to the callback
\* less device_time_delta.
C21_StoredIsLastEmitted ==
    input # <<>> /\ output.delivered =>
        LET time == output.result.time
        IN  p_timestamp[MeasurementOf(input.data[1])]
                = time[Len(time)] - device_time_delta

\* the device timestamp of the frame that was handled last
FrameTimestamp(data) ==
    from_bytes(SubSeq(data, 2, 9))

\* C22: each frame leaves device_time_delta at host time less device
\* timestamp when the two clocks, corrected by the old value, were more than
\* 1e9 ns apart, and leaves it alone otherwise; after the frame host time and
\* corrected device time are at most 1e9 ns apart.
C22_ResyncBoundsDrift ==
    [][LET now == input'.now
           timestamp == FrameTimestamp(input'.data)
           apart == now - timestamp - device_time_delta
       IN  /\ (apart > 1000000000 \/ apart < -1000000000)
                => device_time_delta' = now - timestamp
           /\ (apart <= 1000000000 /\ apart >= -1000000000)
                => device_time_delta' = device_time_delta
           /\ now - (timestamp + device_time_delta') <= 1000000000
           /\ (timestamp + device_time_delta') - now <= 1000000000]_vars

\* a frame arrived 100 ms after the one that set the offset and left it alone
C22_JitterTolerated ==
    /\ input # <<>>
    /\ device_time_delta = 1500000000
    /\ input.now = 1600000000
    /\ FrameTimestamp(input.data) = 20000000

\* C24: a frame of a kind without a registered callback is dropped silently:
\* nothing is delivered, nothing is raised, and the callbacks, the active
\* configurations and the previous frame timestamps stay as they were.
C24_UnregisteredFrameDropped ==
    [][MeasurementOf(input'.data[1]) \notin DOMAIN callbacks
       => /\ ~output'.delivered
          /\ output'.err = "none"
          /\ callbacks' = callbacks
          /\ current_config' = current_config
          /\ p_timestamp' = p_timestamp]_vars

\* a well-formed accelerometer frame arrived while only ECG was registered
C24_UnregisteredFrameSeen ==
    /\ input # <<>>
    /\ MeasurementOf(input.data[1]) = "ACC"
    /\ "ACC" \notin DOMAIN callbacks
    /\ ~DecodeFails(input.data)
    /\ Len(input.data) > 10
    /\ output = Outcome("none", FALSE, <<>>)

\* the frame being handled is on the observed-delta path: the time per sample
\* since the previous frame of its kind is within 10% of 1e9 // SAMPLE_RATE
WithinTenPercent(kind, timestamp, n_samples) ==
    LET ideal_delta == 1000000000
                         \div DictGet(current_config[kind], "SAMPLE_RATE").v[1]
        observed_delta == (timestamp - p_timestamp[kind]) \div n_samples
    IN  /\ 10 * (observed_delta - ideal_delta) <= ideal_delta
        /\ 10 * (ideal_delta - observed_delta) <= ideal_delta

\* C23: when a delivered frame is followed by a frame of the same kind that
\* is within 10% of the ideal delta, with device_time_delta left alone, the
\* timestamps delivered for the second frame increase strictly and its first
\* one is later than the last one of the frame before.
C23_SteadyStreamIncreases ==
    [][LET kind == MeasurementOf(input'.data[1])
           before == output.result.time
           after == output'.result.time
       IN  /\ input # <<>> /\ output.delivered /\ output'.delivered
           /\ MeasurementOf(input.data[1]) = kind
           /\ device_time_delta' = device_time_delta
           /\ WithinTenPercent(kind, FrameTimestamp(input'.data), Len(after))
           => /\ \A i \in 1..(Len(after) - 1) : after[i] < after[i + 1]
              /\ before[Len(before)] < after[1]]_vars

\* two samples delivered 19 ms apart, at 50 Hz, after a frame stamped 20 ms
C23_SteadyFrameDelivered ==
    /\ input # <<>> /\ output.delivered
    /\ device_time_delta = 0
    /\ FrameTimestamp(input.data) = 58000001
    /\ output.result.time = <<39000000, 58000000>>

\* C27: at every suspension point the kinds with a callback are the kinds
\* with an active configuration, and every PMD kind with a callback has a
\* previous frame timestamp.
C27_TablesAgree ==
    /\ DOMAIN callbacks = DOMAIN current_config
    /\ \A nt \in DOMAIN callbacks :
         NotificationValue(nt) < 100 => nt \in DOMAIN p_timestamp

\* a START of ECG was refused and rolled back, and a second registration of
\* ECG is waiting for its response
C27_RegisteredAfterRollback ==
    \E p, q \in Procs :
        /\ pc[q] = "done"
        /\ result[q] = [op |-> "register", nt |-> "ECG", err |-> "ProtocolCommandFailed"]
        /\ pc[p] = "wait" /\ call[p].op = "register" /\ call[p].nt = "ECG"
        /\ "ECG" \in DOMAIN callbacks

\* C25: a request whose link went down while it waited for its response, and
\* which timed out, ends with a failure status for its caller, not with the
\* transport's error.
C25_DisconnectResolvesToFailure ==
    [][\A p \in Procs :
         /\ pc[p] = "stop_notify" /\ txn[p].dropped
         /\ pc'[p] = "done"
         => result'[p].err \notin {"BleakError", "ConnectionFailure"}]_vars

\* C26: a waiting transaction is resolved only by the answer to its own
\* request, the one written last: an answer the device gives to an older
\* request that is still unanswered does not set its status or parameters.
C26_OnlyOwnResponseResolves ==
    [][\A q \in Procs :
         /\ pc[q] = "wait" /\ pc'[q] = "wait"
         /\ << txn'[q].response_status, txn'[q].response_params,
               txn'[q].response_event >>
              # << txn[q].response_status, txn[q].response_params,
                   txn[q].response_event >>
         => Len(device) = 1]_vars

====
